---- MODULE Spec2Model ----
(***************************************************************************)
(* RLM runtime (src/src/runtime.py): the dispatch loop, the execution      *)
(* engine and the query bridge of the persistent Python subprocess, as a   *)
(* state machine over the inbound and outbound line channels.              *)
(*                                                                         *)
(* Text is modelled as a sequence of chunks (one chunk per write), JSON    *)
(* dicts as TLA+ records whose DOMAIN is the set of keys present, and a    *)
(* code fragment as its syntactic class plus the sequence of statements    *)
(* it executes.                                                            *)
(***************************************************************************)
EXTENDS Integers, Sequences, FiniteSets, TLC

\* ---------------------------------------------------------------- bounds
\* Number of inbound lines the parent sends before it stops or closes.
MaxLines == 3
\* Number of request tokens (queries) generated in one behaviour.
MaxTok == 2

\* ------------------------------------------------------- python values
\* The Python object None, as an argument of FINAL / FINAL_VAR.
PyNone == "<None>"

\* str(x)
Str(x) == IF x = PyNone THEN "None" ELSE x

\* __final_result__ = None  (the sentinel is absent)
NoFinal == <<>>

\* FINAL(x): __final_result__ = str(x)
FINAL(x) == <<Str(x)>>

\* FINAL_VAR(x): __final_result__ = str(x) if x is not None else None
FINAL_VAR(x) == IF x # PyNone THEN <<Str(x)>> ELSE NoFinal

\* A name of the module's global scope that has no binding.
Unbound == "<unbound>"

\* The names of the evaluation scope the fragments use.
Names == {"context", "x"}

\* Exceptions that derive from Exception are caught by `except Exception`;
\* SystemExit derives from BaseException only.
IsException(e) == e # "SystemExit"

\* dict.get(key, default)
Get(d, key, default) == IF key \in DOMAIN d THEN d[key] ELSE default

\* ------------------------------------------------------ code fragments
\* One statement of a fragment.
Stmt(op, arg) == [op |-> op, arg |-> arg]

\* What the interpreter makes of a fragment's text: what
\* compile(code, "<repl>", "exec") says about it ("ok", "await_outside":
\* legal only inside an async def, "invalid"), whether the text contains
\* "await", and the statements it runs.
Code(syntax, mentionsAwait, stmts) ==
    [syntax |-> syntax, mentionsAwait |-> mentionsAwait, stmts |-> stmts]

\* msg.get("code", "") of an exec message without a code field
EmptyCode == ""

\* The fragments the parent sends, by their text.
Program ==
    (EmptyCode :> Code("ok", FALSE, <<>>))
    @@ ("x = 'v'; print('p')" :>
            Code("ok", FALSE, <<Stmt("assign", "x"), Stmt("print", "p")>>))
    @@ ("FINAL(42)" :> Code("ok", FALSE, <<Stmt("FINAL", "42")>>))
    @@ ("print('w', file=sys.stderr); FINAL_VAR(None)" :>
            Code("ok", FALSE, <<Stmt("print_err", "w"), Stmt("FINAL_VAR", PyNone)>>))
    @@ ("print('p'); FINAL(None); raise ValueError()" :>
            Code("ok", FALSE, <<Stmt("print", "p"), Stmt("FINAL", PyNone),
                                Stmt("raise", "ValueError")>>))
    @@ ("raise SystemExit()" :> Code("ok", FALSE, <<Stmt("raise", "SystemExit")>>))
    @@ ("print('p'); print(llm_query('q'))" :>
            Code("ok", FALSE, <<Stmt("print", "p"), Stmt("query", "q")>>))
    @@ ("print(context); print(x)" :>
            Code("ok", FALSE, <<Stmt("echo", "context"), Stmt("echo", "x")>>))
    @@ ("sys.stdout = io.StringIO(); print('p')" :>
            Code("ok", FALSE, <<Stmt("rebind", "stdout"), Stmt("print", "p")>>))
    @@ ("print(await asyncio.gather(async_llm_query('q'), async_llm_query('q')))" :>
            Code("await_outside", TRUE, <<Stmt("gather", "q")>>))
    @@ ("await asyncio.sleep(0); x = 'v'; print('p')" :>
            Code("await_outside", TRUE, <<Stmt("assign", "x"), Stmt("print", "p")>>))
    @@ ("await asyncio.sleep(0); print(x); x = 'v'" :>
            Code("await_outside", TRUE, <<Stmt("echo", "x"), Stmt("assign", "x")>>))
    @@ ("print('p'); eval('await')" :>
            Code("ok", TRUE, <<Stmt("print", "p"), Stmt("raise", "SyntaxError")>>))
    @@ ("def f(:" :> Code("invalid", FALSE, <<>>))

\* The texts of the fragments the parent sends in a code field.
Codes == DOMAIN Program \ {EmptyCode}

\* The value every `name = ...` statement of a fragment binds.
AssignedValue == "v"

\* Number of queries a fragment issues when it runs to its end.
QueriesIn(code) ==
    LET stmts == Program[code].stmts
        n(i) == IF stmts[i].op = "query" THEN 1
                ELSE IF stmts[i].op = "gather" THEN 2 ELSE 0
        RECURSIVE sum(_)
        sum(i) == IF i = 0 THEN 0 ELSE n(i) + sum(i - 1)
    IN  sum(Len(stmts))

\* -------------------------------------------------------- inbound lines
\* A line of the inbound channel: how it reads ("blank" after strip(),
\* "garbage" = json.loads raises JSONDecodeError, "nondict" = JSON that is
\* not an object, "dict") and, for a dict, the object.
Line(form, obj) == [form |-> form, obj |-> obj]

\* The JSON value of a line that carries no object.
NoObj == [none |-> TRUE]

ContextValues == {"doc"}
Results == {"blue"}

\* The records the parent sends to the dispatch loop.
ControlMsgs ==
    {[type |-> "exec", code |-> c] : c \in Codes}
        \cup {[type |-> "set_context", value |-> v] : v \in ContextValues}
        \cup {[type |-> "reset_final"], [type |-> "shutdown"]}

\* The records the parent sends in answer to a query, with and without
\* the result field.
ResultMsgs ==
    {[type |-> "llm_result", id |-> t, result |-> r] : t \in 1..MaxTok, r \in Results}
        \cup {[type |-> "llm_result", id |-> 1]}

Lines ==
    {Line("blank", NoObj), Line("garbage", NoObj), Line("nondict", NoObj)}
        \cup {Line("dict", m) : m \in ControlMsgs \cup ResultMsgs}

\* readline() returned '': end of stream.
EOFLine == Line("eof", NoObj)

\* No readline() has returned yet.
NoRead == [by |-> "none", tok |-> 0, line |-> Line("blank", NoObj)]

\* ------------------------------------------------------------- state
VARIABLES
    pc,          \* main thread: "loop" (_main_loop reading), "exec" (inside
                 \* _execute_code), "done" (loop left), "crashed" (the
                 \* process is exiting on an uncaught exception)
    nread,       \* number of lines read from _real_stdin so far
    last,        \* the line the last readline() returned, and its reader
    dispatched,  \* the records _main_loop has dispatched, in order
    delivered,   \* the llm_result records read inside llm_query, in order,
                 \* each with its reader and the calls waiting at that time
    closed,      \* _real_stdin has reached end-of-stream
    outbound,    \* the lines written to _real_stdout
    final,       \* __final_result__
    scope,       \* globals(): Names -> value
    sys_stdout,  \* what sys.stdout is bound to: "orig", "cap", "other"
    sys_stderr,  \* what sys.stderr is bound to
    frame,       \* the locals of the _execute_code call in progress
    request_id,  \* token of the llm_query call the main thread is inside, or 0
    waiters,     \* the llm_query calls made so far: token -> thread, status
                 \* ("new", "waiting", "returned", "failed"), result, exception
    gathering,   \* tokens the suspended fragment awaits in asyncio.gather
    nextTok,     \* the next uuid4 token
    obs          \* observations of the current (or last) run

vars == <<pc, nread, last, dispatched, delivered, closed, outbound, final, scope, sys_stdout, sys_stderr,
          frame, request_id, waiters, gathering, nextTok, obs>>

\* _execute_code is not running.
NoFrame ==
    [code |-> EmptyCode, ip |-> 0, path |-> "none", exc |-> "",
     locals |-> [n \in Names |-> Unbound],
     captured_stdout |-> <<>>, captured_stderr |-> <<>>,
     old_stdout |-> "orig", old_stderr |-> "orig"]

\* Nothing observed yet.
NoObs == [code |-> EmptyCode, printed |-> <<>>, raised |-> FALSE,
          wrote_err |-> FALSE, rebound |-> FALSE, final_before |-> NoFinal,
          attempts |-> 0, exit |-> "none", report |-> <<>>]

\* The engine part of the state as one value.
Cur ==
    [pc |-> pc, outbound |-> outbound, final |-> final, scope |-> scope,
     sys_stdout |-> sys_stdout, sys_stderr |-> sys_stderr, frame |-> frame,
     request_id |-> request_id, waiters |-> waiters, gathering |-> gathering,
     nextTok |-> nextTok, obs |-> obs]

\* The next state's engine part is s.
Becomes(s) ==
    /\ pc' = s.pc
    /\ outbound' = s.outbound
    /\ final' = s.final
    /\ scope' = s.scope
    /\ sys_stdout' = s.sys_stdout
    /\ sys_stderr' = s.sys_stderr
    /\ frame' = s.frame
    /\ request_id' = s.request_id
    /\ waiters' = s.waiters
    /\ gathering' = s.gathering
    /\ nextTok' = s.nextTok
    /\ obs' = s.obs

\* __main__: emit the ready record, then enter _main_loop.
Init ==
    /\ pc = "loop"
    /\ nread = 0
    /\ last = NoRead
    /\ dispatched = <<>>
    /\ delivered = <<>>
    /\ closed = FALSE
    /\ outbound = <<[type |-> "ready"]>>
    /\ final = NoFinal
    /\ scope = [n \in Names |-> IF n = "context" THEN "" ELSE Unbound]
    /\ sys_stdout = "orig"
    /\ sys_stderr = "orig"
    /\ frame = NoFrame
    /\ request_id = 0
    /\ waiters = <<>>
    /\ gathering = <<>>
    /\ nextTok = 1
    /\ obs = NoObs

\* ------------------------------------------------------------ streams
\* _real_stdout.write(json.dumps(record) + "\n"); _real_stdout.flush()
Emit(s, record) == [s EXCEPT !.outbound = Append(@, record)]

\* A write of text to the stream a name of sys is bound to: the capture
\* buffer of the run, the original stream (which is _real_stdout for
\* sys.stdout), or a stream of the fragment's own.
WriteTo(s, target, buffer, text) ==
    CASE target = "cap" /\ buffer = "stdout" ->
            [s EXCEPT !.frame.captured_stdout = Append(@, text)]
      [] target = "cap" /\ buffer = "stderr" ->
            [s EXCEPT !.frame.captured_stderr = Append(@, text)]
      [] target = "orig" /\ buffer = "stdout" ->
            Emit(s, [type |-> "raw", text |-> text])
      [] OTHER -> s

\* print that writes to the process's real standard output.
StdoutPrint_Real(s, text) ==
    [WriteTo(s, "orig", "stdout", text) EXCEPT !.obs.printed = Append(@, text)]

\* print(text)
StdoutPrint(s, text) ==
    [WriteTo(s, s.sys_stdout, "stdout", text) EXCEPT !.obs.printed = Append(@, text)]

\* print(text, file=sys.stderr)
StderrPrint(s, text) ==
    [WriteTo(s, s.sys_stderr, "stderr", text) EXCEPT !.obs.wrote_err = TRUE]

\* ------------------------------------------------- fragment statements
\* Names a fragment assigns: inside the async wrapper they are locals of
\* __async_exec__, in plain code they are globals.
AssignedNames(code) ==
    LET stmts == Program[code].stmts
    IN  {stmts[i].arg : i \in {j \in 1..Len(stmts) : stmts[j].op = "assign"}}

\* The fragment raises e.
Raise(s, e) == [s EXCEPT !.frame.exc = e]

\* print(name): the value of a name, or NameError / UnboundLocalError.
Echo(s, name) ==
    LET local == s.frame.path = "async" /\ name \in AssignedNames(s.frame.code)
        value == IF local THEN s.frame.locals[name] ELSE s.scope[name]
    IN  IF value = Unbound
        THEN Raise(s, IF local THEN "UnboundLocalError" ELSE "NameError")
        ELSE StdoutPrint(s, value)

\* name = value
Assign(s, name) ==
    IF s.frame.path = "async"
    THEN [s EXCEPT !.frame.locals[name] = AssignedValue]
    ELSE [s EXCEPT !.scope[name] = AssignedValue]

\* One statement that neither blocks nor suspends.
ExecStmt(s, st) ==
    CASE st.op = "print"     -> StdoutPrint(s, st.arg)
      [] st.op = "print_err" -> StderrPrint(s, st.arg)
      [] st.op = "FINAL"     -> [s EXCEPT !.final = FINAL(st.arg)]
      [] st.op = "FINAL_VAR" -> [s EXCEPT !.final = FINAL_VAR(st.arg)]
      [] st.op = "raise"     -> Raise(s, st.arg)
      [] st.op = "echo"      -> Echo(s, st.arg)
      [] st.op = "assign"    -> Assign(s, st.arg)
      [] st.op = "rebind"    -> [s EXCEPT !.sys_stdout = "other", !.obs.rebound = TRUE]
      [] OTHER               -> s

\* The statement at ip blocks the main thread (llm_query) or suspends the
\* fragment (await asyncio.gather(...)).
Blocks(st) == st.op \in {"query", "gather"}

\* exec(...): run the statements from frame.ip up to the end, the first
\* exception, or the first statement that blocks.
RECURSIVE RunStmts(_)
RunStmts(s) ==
    LET stmts == Program[s.frame.code].stmts
        i == s.frame.ip
    IN  IF i > Len(stmts) \/ s.frame.exc # "" THEN s
        ELSE IF Blocks(stmts[i]) THEN s
        ELSE LET t == ExecStmt(s, stmts[i])
             IN  IF t.frame.exc # "" THEN t
                 ELSE RunStmts([t EXCEPT !.frame.ip = i + 1])
\* ------------------------------------------------------- query bridge
\* response.get("id") of a record without an id: None, equal to no token.
NoId == 0

\* response.get("type") of a record without a type: None.
NoType == PyNone

\* The llm_query record of a call with token tok.
QueryRecord(sub_context, tok) ==
    [type |-> "llm_query", sub_context |-> sub_context, instruction |-> "",
     id |-> tok]

\* A wait loop that gives up when it reads a shutdown message.
QueryStep_Shutdown(line, tok) ==
    CASE line.form \in {"blank", "garbage"} ->
            [do |-> "continue", res |-> "", exc |-> ""]
      [] line.form = "nondict" ->
            [do |-> "raise", res |-> "", exc |-> "AttributeError"]
      [] OTHER ->
            IF /\ Get(line.obj, "type", NoType) = "llm_result"
               /\ Get(line.obj, "id", NoId) = tok
            THEN [do |-> "return", res |-> Get(line.obj, "result", ""), exc |-> ""]
            ELSE IF Get(line.obj, "type", NoType) = "shutdown"
                 THEN [do |-> "raise", res |-> "", exc |-> "RuntimeError"]
                 ELSE [do |-> "continue", res |-> "", exc |-> ""]

\* A wait loop that takes the first llm_result, whatever its id.
QueryStep_AnyId(line, tok) ==
    CASE line.form \in {"blank", "garbage"} ->
            [do |-> "continue", res |-> "", exc |-> ""]
      [] line.form = "nondict" ->
            [do |-> "raise", res |-> "", exc |-> "AttributeError"]
      [] OTHER ->
            IF Get(line.obj, "type", NoType) = "llm_result"
            THEN [do |-> "return", res |-> Get(line.obj, "result", ""), exc |-> ""]
            ELSE [do |-> "continue", res |-> "", exc |-> ""]

\* One turn of the wait loop of llm_query on a line that was read: the call
\* returns res, raises exc, or continues with the next line.
QueryStep(line, tok) ==
    CASE line.form \in {"blank", "garbage"} ->
            [do |-> "continue", res |-> "", exc |-> ""]
      [] line.form = "nondict" ->
            [do |-> "raise", res |-> "", exc |-> "AttributeError"]
      [] OTHER ->
            IF /\ Get(line.obj, "type", NoType) = "llm_result"
               /\ Get(line.obj, "id", NoId) = tok
            THEN [do |-> "return", res |-> Get(line.obj, "result", ""), exc |-> ""]
            ELSE [do |-> "continue", res |-> "", exc |-> ""]

\* End-of-stream taken for one more blank line.
QueryClosed_Ignored == [do |-> "continue", res |-> "", exc |-> ""]

\* readline() returned '' inside llm_query.
QueryClosed == [do |-> "raise", res |-> "", exc |-> "RuntimeError"]

\* An llm_query call: the thread it runs on and its progress.
Call(thread, st, sub_context) ==
    [thread |-> thread, st |-> st, res |-> "", exc |-> "",
     sub_context |-> sub_context]

\* The outcome of a wait-loop turn, as the call's return value or exception.
Settle(w, q) ==
    CASE q.do = "return" -> [w EXCEPT !.st = "returned", !.res = q.res]
      [] q.do = "raise"  -> [w EXCEPT !.st = "failed", !.exc = q.exc]
      [] OTHER           -> w

\* llm_query called by the fragment on the main thread: a fresh token, the
\* request on the outbound channel, then the wait loop.
CallQuery(s) ==
    LET arg == Program[s.frame.code].stmts[s.frame.ip].arg
    IN  [Emit(s, QueryRecord(arg, s.nextTok))
            EXCEPT !.request_id = s.nextTok,
                   !.waiters = (s.nextTok :> Call("main", "waiting", arg)) @@ @,
                   !.nextTok = @ + 1]

\* await asyncio.gather(async_llm_query(..), async_llm_query(..)): two
\* llm_query calls handed to executor threads, the fragment suspended.
Suspend(s) ==
    LET t1 == s.nextTok
        t2 == s.nextTok + 1
        new == Call("pool", "new", Program[s.frame.code].stmts[s.frame.ip].arg)
    IN  [s EXCEPT !.waiters = (t1 :> new) @@ (t2 :> new) @@ @,
                  !.gathering = <<t1, t2>>,
                  !.nextTok = @ + 2]

\* ------------------------------------------------------ execution engine
\* traceback.print_exc(file=captured_stderr)
Traceback(e) == <<"Traceback (most recent call last):", e>>

\* str(__final_result__) if __final_result__ is not None else None
FinalValue(f) == IF f # NoFinal THEN <<Str(f[1])>> ELSE <<>>

\* An exec_done record that reports the sentinel as it was when the run
\* began.
ExecDone_Stale(s) ==
    [type |-> "exec_done",
     stdout |-> s.frame.captured_stdout,
     stderr |-> s.frame.captured_stderr,
     has_final |-> s.obs.final_before # NoFinal,
     final_value |-> FinalValue(s.obs.final_before)]

\* The exec_done record built from the buffers and the sentinel.
ExecDone(s) ==
    [type |-> "exec_done",
     stdout |-> s.frame.captured_stdout,
     stderr |-> s.frame.captured_stderr,
     has_final |-> s.final # NoFinal,
     final_value |-> FinalValue(s.final)]

\* _execute_code that saves the streams and never redirects sys.stdout.
Enter_NoRedirect(s, code) ==
    [s EXCEPT !.pc = "exec",
              !.frame = [NoFrame EXCEPT !.code = code, !.ip = 1,
                                        !.old_stdout = s.sys_stdout,
                                        !.old_stderr = s.sys_stderr],
              !.sys_stderr = "cap",
              !.obs = [NoObs EXCEPT !.code = code, !.final_before = s.final,
                                    !.exit = "running"]]

\* _execute_code up to the first compile: fresh buffers, the ambient
\* streams saved and redirected.
Enter(s, code) ==
    [s EXCEPT !.pc = "exec",
              !.frame = [NoFrame EXCEPT !.code = code, !.ip = 1,
                                        !.old_stdout = s.sys_stdout,
                                        !.old_stderr = s.sys_stderr],
              !.sys_stdout = "cap",
              !.sys_stderr = "cap",
              !.obs = [NoObs EXCEPT !.code = code, !.final_before = s.final,
                                    !.exit = "running"]]

\* compile as regular code, then exec; on a SyntaxError of compile, if the
\* text contains "await", compile the async wrapper and exec it, else
\* re-raise. obs.attempts counts the exec calls that run the fragment.
Compile(s) ==
    LET code == Program[s.frame.code]
    IN  IF code.syntax = "ok"
        THEN [s EXCEPT !.frame.path = "plain", !.obs.attempts = @ + 1]
        ELSE IF code.mentionsAwait /\ code.syntax = "await_outside"
             THEN [s EXCEPT !.frame.path = "async", !.obs.attempts = @ + 1]
             ELSE Raise(s, "SyntaxError")

\* `except SyntaxError` also encloses exec(compiled, globals()): a
\* SyntaxError the fragment raises while it runs as regular code, when the
\* text contains "await", sends the fragment through the async wrapper from
\* its first statement, the capture buffers and the scope being as the
\* first attempt left them.
Fallback(s) ==
    IF /\ s.frame.exc = "SyntaxError"
       /\ s.frame.path = "plain"
       /\ Program[s.frame.code].mentionsAwait
    THEN RunStmts([s EXCEPT !.frame.path = "async", !.frame.ip = 1,
                            !.frame.exc = "", !.obs.attempts = @ + 1])
    ELSE s

\* _execute_code that restores the streams after the try statement instead
\* of in a `finally`: a fragment that raised leaves them redirected.
Leave_NoFinally(s) ==
    LET e == s.frame.exc
        caught == e # "" /\ IsException(e)
        t == IF caught
             THEN [s EXCEPT !.frame.captured_stderr = @ \o Traceback(e)]
             ELSE s
        u == [t EXCEPT !.sys_stdout = IF e = "" THEN s.frame.old_stdout ELSE @,
                       !.sys_stderr = IF e = "" THEN s.frame.old_stderr ELSE @,
                       !.obs.raised = (e # "")]
    IN  IF e # "" /\ ~caught
        THEN [u EXCEPT !.pc = "crashed", !.frame = NoFrame,
                       !.obs.exit = "unwound"]
        ELSE [Emit(u, ExecDone(u))
                 EXCEPT !.pc = "loop", !.frame = NoFrame,
                        !.obs.exit = "returned",
                        !.obs.report = <<ExecDone(u)>>]

\* The end of _execute_code: `except Exception` writes the traceback,
\* `finally` restores the streams, then the exec_done record is emitted.
\* An exception that is not an Exception leaves through `finally` only and
\* unwinds _main_loop.
Leave(s) ==
    LET e == s.frame.exc
        caught == e # "" /\ IsException(e)
        t == IF caught
             THEN [s EXCEPT !.frame.captured_stderr = @ \o Traceback(e)]
             ELSE s
        u == [t EXCEPT !.sys_stdout = s.frame.old_stdout,
                       !.sys_stderr = s.frame.old_stderr,
                       !.obs.raised = (e # "")]
    IN  IF e # "" /\ ~caught
        THEN [u EXCEPT !.pc = "crashed", !.frame = NoFrame,
                       !.obs.exit = "unwound"]
        ELSE [Emit(u, ExecDone(u))
                 EXCEPT !.pc = "loop", !.frame = NoFrame,
                        !.obs.exit = "returned",
                        !.obs.report = <<ExecDone(u)>>]

\* Run the fragment from frame.ip until _execute_code returns, the main
\* thread blocks in llm_query, or the fragment suspends in gather.
Proceed(s) ==
    LET r == Fallback(RunStmts(s))
        stmts == Program[r.frame.code].stmts
    IN  IF r.frame.exc # "" \/ r.frame.ip > Len(stmts) THEN Leave(r)
        ELSE IF stmts[r.frame.ip].op = "query" THEN CallQuery(r)
        ELSE Suspend(r)

\* _execute_code(code), up to its return or its first wait.
ExecuteCode(s, code) == Proceed(Compile(Enter(s, code)))

\* ------------------------------------------------------- dispatch loop
\* set_context that reads the value from the wrong key.
SetContext_WrongKey(s, msg) ==
    Emit([s EXCEPT !.scope["context"] = Get(msg, "context", "")],
         [type |-> "context_set"])

\* set_context: context = msg.get("value", ""), then the acknowledgment.
SetContext(s, msg) ==
    Emit([s EXCEPT !.scope["context"] = Get(msg, "value", "")],
         [type |-> "context_set"])

\* reset_final that flips the sentinel instead of clearing it.
ResetFinal_Toggle(s) ==
    Emit([s EXCEPT !.final = IF @ = NoFinal THEN <<"">> ELSE NoFinal],
         [type |-> "final_reset"])

\* reset_final that clears the sentinel and writes no acknowledgment.
ResetFinal_NoAck(s) == [s EXCEPT !.final = NoFinal]

\* reset_final: __final_result__ = None, then the acknowledgment.
ResetFinal(s) ==
    Emit([s EXCEPT !.final = NoFinal], [type |-> "final_reset"])

\* The body of the _main_loop iteration for a line that was read.
Dispatch(s, line) ==
    LET msg == line.obj
        type == Get(msg, "type", NoType)
    IN  CASE line.form \in {"blank", "garbage"} -> s
          [] line.form = "nondict" -> [s EXCEPT !.pc = "crashed"]
          [] OTHER ->
             CASE type = "exec" -> ExecuteCode(s, Get(msg, "code", EmptyCode))
               [] type = "set_context" -> SetContext(s, msg)
               [] type = "reset_final" -> ResetFinal(s)
               [] type = "shutdown" -> [s EXCEPT !.pc = "done"]
               [] OTHER -> s

\* ------------------------------------------------------------- actions
\* The tokens of the llm_query calls that are in their wait loop.
Waiting == {t \in DOMAIN waiters : waiters[t].st = "waiting"}

\* readline() on _real_stdin returns the next line the parent sent.
Read(by, tok, line) ==
    /\ ~closed
    /\ nread < MaxLines
    /\ nread' = nread + 1
    /\ last' = [by |-> by, tok |-> tok, line |-> line]
    /\ dispatched' = IF by = "loop" /\ line.form = "dict"
                     THEN Append(dispatched, line.obj) ELSE dispatched
    /\ delivered' = IF /\ by # "loop"
                       /\ line.form = "dict"
                       /\ Get(line.obj, "type", NoType) = "llm_result"
                    THEN Append(delivered, [to |-> tok, rec |-> line.obj,
                                            open |-> Waiting])
                    ELSE delivered
    /\ UNCHANGED closed

\* readline() on _real_stdin returns '': the parent closed the channel.
ReadEOF(by, tok) ==
    /\ closed' = TRUE
    /\ last' = [by |-> by, tok |-> tok, line |-> EOFLine]
    /\ UNCHANGED <<nread, dispatched, delivered>>

\* No line is read in this step.
Silent == UNCHANGED <<nread, last, dispatched, delivered, closed>>

\* The fragment of an exec line can still draw its tokens.
TokensLeft(line) ==
    (line.form = "dict" /\ Get(line.obj, "type", NoType) = "exec")
        => nextTok + QueriesIn(Get(line.obj, "code", EmptyCode)) <= MaxTok + 1

\* _main_loop reads a line and dispatches it.
MainLoop(line) ==
    /\ pc = "loop"
    /\ TokensLeft(line)
    /\ Read("loop", 0, line)
    /\ Becomes(Dispatch(Cur, line))

\* _main_loop reads end-of-stream and breaks.
MainLoopEOF ==
    /\ pc = "loop"
    /\ ReadEOF("loop", 0)
    /\ Becomes([Cur EXCEPT !.pc = "done"])

\* A turn of the wait loop of the main thread's llm_query call: on return
\* the fragment prints the answer and runs on, on an exception
\* _execute_code ends, otherwise the call keeps waiting.
MainQueryTurn(s, q) ==
    LET t == [s EXCEPT !.waiters[s.request_id] = Settle(@, q)]
    IN  CASE q.do = "return" ->
                Proceed([StdoutPrint(t, q.res)
                            EXCEPT !.request_id = 0, !.frame.ip = @ + 1])
          [] q.do = "raise" -> Leave(Raise([t EXCEPT !.request_id = 0], q.exc))
          [] OTHER -> t

\* The main thread, inside llm_query, reads a line.
QueryRead(line) ==
    /\ pc = "exec"
    /\ request_id # 0
    /\ Read("query", request_id, line)
    /\ Becomes(MainQueryTurn(Cur, QueryStep(line, request_id)))

\* The main thread, inside llm_query, reads end-of-stream.
QueryEOF ==
    /\ pc = "exec"
    /\ request_id # 0
    /\ ReadEOF("query", request_id)
    /\ Becomes(MainQueryTurn(Cur, QueryClosed))

\* An executor thread enters llm_query and writes its request.
WaiterStart(t) ==
    /\ t \in DOMAIN waiters
    /\ waiters[t].st = "new"
    /\ Becomes([Emit(Cur, QueryRecord(waiters[t].sub_context, t))
                    EXCEPT !.waiters[t].st = "waiting"])
    /\ Silent

\* An executor thread, inside llm_query, reads a line.
WaiterRead(t, line) ==
    /\ t \in DOMAIN waiters
    /\ waiters[t].thread = "pool"
    /\ waiters[t].st = "waiting"
    /\ Read("waiter", t, line)
    /\ Becomes([Cur EXCEPT !.waiters[t] = Settle(@, QueryStep(line, t))])

\* An executor thread, inside llm_query, reads end-of-stream.
WaiterEOF(t) ==
    /\ t \in DOMAIN waiters
    /\ waiters[t].thread = "pool"
    /\ waiters[t].st = "waiting"
    /\ ReadEOF("waiter", t)
    /\ Becomes([Cur EXCEPT !.waiters[t] = Settle(@, QueryClosed)])

\* Both futures have a result: gather returns them in argument order and
\* the fragment prints them.
GatherReturn ==
    /\ pc = "exec"
    /\ gathering # <<>>
    /\ \A i \in 1..Len(gathering) : waiters[gathering[i]].st = "returned"
    /\ LET s == Cur
           p1 == StdoutPrint(s, waiters[gathering[1]].res)
           p2 == StdoutPrint(p1, waiters[gathering[2]].res)
       IN  Becomes(Proceed([p2 EXCEPT !.gathering = <<>>, !.frame.ip = @ + 1]))
    /\ Silent

\* A future has an exception: gather raises it in the fragment at once,
\* whatever the other thread is doing.
GatherRaise(t) ==
    /\ pc = "exec"
    /\ \E i \in 1..Len(gathering) : gathering[i] = t
    /\ waiters[t].st = "failed"
    /\ Becomes(Leave(Raise([Cur EXCEPT !.gathering = <<>>], waiters[t].exc)))
    /\ Silent

Next ==
    \/ \E line \in Lines : MainLoop(line)
    \/ MainLoopEOF
    \/ \E line \in Lines : QueryRead(line)
    \/ QueryEOF
    \/ \E t \in 1..MaxTok : WaiterStart(t)
    \/ \E t \in 1..MaxTok, line \in Lines : WaiterRead(t, line)
    \/ \E t \in 1..MaxTok : WaiterEOF(t)
    \/ GatherReturn
    \/ \E t \in 1..MaxTok : GatherRaise(t)

Spec == Init /\ [][Next]_vars

\* ------------------------------------------------------------ claims
\* A readline() returned in this step.
ReadHappened == nread' # nread \/ last' # last

\* The engine state other than the channel bookkeeping is left as it is.
EngineUnchanged ==
    UNCHANGED <<pc, outbound, final, scope, sys_stdout, sys_stderr, frame,
                request_id, waiters, gathering, nextTok, obs>>

\* The records of the outbound channel whose type is in a set.
OfType(seq, types) == SelectSeq(seq, LAMBDA r : Get(r, "type", NoType) \in types)

\* The exec_done of the last _execute_code call that returned.
Report == obs.report[1]

\* The last _execute_code call has returned and no other is in progress.
RunReturned == pc # "exec" /\ obs.exit = "returned"

\* C1: when a fragment has two concurrent queries T1, T2 waiting and the
\* parent delivers the llm_result for T2 first and the one for T1 second,
\* both waiters have returned, each with the result of the record that
\* carries its own token.
C1_OutOfOrderResolved ==
    \A t1, t2 \in 1..MaxTok :
        ( /\ gathering = <<t1, t2>>
          /\ Len(delivered) = 2
          /\ delivered[1].open = {t1, t2}
          /\ Get(delivered[1].rec, "id", NoId) = t2
          /\ Get(delivered[2].rec, "id", NoId) = t1 )
        => /\ waiters[t1].st = "returned"
           /\ waiters[t1].res = Get(delivered[2].rec, "result", "")
           /\ waiters[t2].st = "returned"
           /\ waiters[t2].res = Get(delivered[1].rec, "result", "")

\* C2: a run whose fragment raised an exception, of any kind, has returned
\* with one exec_done record whose stderr is not empty, one per exec
\* message dispatched, and the dispatch loop is back at its read.
C2_RaiseNeverEscapes ==
    (obs.raised /\ obs.exit # "running")
        => /\ obs.exit = "returned"
           /\ Report.stderr # <<>>
           /\ pc = "exec" \/
              Len(OfType(outbound, {"exec_done"})) = Len(OfType(dispatched, {"exec"}))

\* The line read in this step is not a valid record: blank, not JSON, JSON
\* that is not an object, an object without a type, or an llm_result
\* without an id.
InvalidLine(l) ==
    \/ l.form \in {"blank", "garbage", "nondict"}
    \/ /\ l.form = "dict"
       /\ \/ "type" \notin DOMAIN l.obj
          \/ l.obj.type = "llm_result" /\ "id" \notin DOMAIN l.obj

\* C3: a line that is not a valid record is discarded silently wherever it
\* is read, in the dispatch loop or inside a query wait: no record is
\* emitted, no state changes, nothing is raised, reading goes on.
C3_InvalidLinesDiscarded ==
    [][(ReadHappened /\ last'.line # EOFLine /\ InvalidLine(last'.line))
          => EngineUnchanged]_vars

\* The reply the dispatch loop owes to a control message.
ReplyTo(msg) ==
    LET type == Get(msg, "type", NoType)
    IN  CASE type = "exec"        -> <<"exec_done">>
          [] type = "set_context" -> <<"context_set">>
          [] type = "reset_final" -> <<"final_reset">>
          [] OTHER                -> <<>>

\* The replies owed to a sequence of control messages, in order.
RECURSIVE RepliesTo(_)
RepliesTo(msgs) ==
    IF msgs = <<>> THEN <<>> ELSE ReplyTo(Head(msgs)) \o RepliesTo(Tail(msgs))

\* The replies on the outbound channel, in order.
Replies ==
    LET acks == OfType(outbound, {"exec_done", "context_set", "final_reset"})
    IN  [i \in 1..Len(acks) |-> acks[i].type]

\* The control messages whose handling has ended.
Handled ==
    IF pc = "exec" THEN SubSeq(dispatched, 1, Len(dispatched) - 1) ELSE dispatched

\* C4: whenever the dispatch loop is at its read or has left through it,
\* the replies on the outbound channel are exactly the replies owed to the
\* control messages read so far, in the order they were read; while a run
\* is in progress they are the replies to the earlier messages and the
\* run is the one of the exec message read last, so that no two exec
\* requests are interleaved.
C4_RepliesInOrder ==
    /\ pc \in {"loop", "exec", "done"} => Replies = RepliesTo(Handled)
    /\ pc = "exec" =>
          /\ dispatched # <<>>
          /\ Get(dispatched[Len(dispatched)], "type", NoType) = "exec"
          /\ Get(dispatched[Len(dispatched)], "code", EmptyCode) = frame.code

\* C4 witness: three control messages, two of them exec, all answered.
C4_Witness ==
    /\ pc = "loop"
    /\ Len(dispatched) = 3
    /\ Len(OfType(dispatched, {"exec"})) = 2
    /\ Len(OfType(dispatched, {"reset_final"})) = 1
    /\ Len(Replies) = 3

\* The dispatch loop handles a record of this type in this step.
Dispatches(type) ==
    /\ ReadHappened
    /\ last'.by = "loop"
    /\ last'.line.form = "dict"
    /\ Get(last'.line.obj, "type", NoType) = type

\* C5: a sentinel that is set stays set until a reset_final is processed,
\* whatever FINAL / FINAL_VAR calls the fragments make, and every exec_done
\* emitted while it is set reports has_final = true.
C5_SentinelStaysSet ==
    [][final # NoFinal =>
          /\ final' = NoFinal => Dispatches("reset_final")
          /\ (obs'.report # <<>> /\ ~Dispatches("reset_final"))
                => obs'.report[1].has_final]_vars

\* The text chunks of a buffer.
Chunks(buffer) == {buffer[i] : i \in 1..Len(buffer)}

\* The run in progress ends in this step by emitting its exec_done, whose
\* stderr carries the diagnostic of exception e.
EndsReporting(e) ==
    /\ pc' = "loop"
    /\ obs'.exit = "returned"
    /\ outbound' = Append(outbound, obs'.report[1])
    /\ obs'.report[1].type = "exec_done"
    /\ e \in Chunks(obs'.report[1].stderr)

\* The calls of the gather in progress that have failed.
FailedInGather ==
    {gathering[i] : i \in {j \in 1..Len(gathering) : waiters[gathering[j]].st = "failed"}}

\* C6: when the inbound channel reaches end-of-stream while a query of the
\* run in progress is waiting, the query fails with the channel-closed
\* error, the run ends by emitting its exec_done with that diagnostic in
\* stderr (for a query on a pool thread: when gather raises it), the
\* process does not crash, and the dispatch loop ends on its next read.
C6_ClosedWhileWaiting ==
    /\ [][(pc = "exec" /\ request_id # 0 /\ ReadHappened
            /\ last'.line = EOFLine /\ last'.by = "query")
            => /\ waiters'[request_id].st = "failed"
               /\ waiters'[request_id].exc = "RuntimeError"
               /\ EndsReporting("RuntimeError")]_vars
    /\ [][\A t \in 1..MaxTok :
            ( /\ t \in DOMAIN waiters
              /\ waiters[t].st = "waiting"
              /\ ReadHappened /\ last'.line = EOFLine /\ last'.tok = t )
            => waiters'[t].st = "failed" /\ waiters'[t].exc = "RuntimeError"]_vars
    /\ [][(pc = "exec" /\ gathering # <<>> /\ gathering' = <<>>
            /\ FailedInGather # {})
            => \E t \in FailedInGather : EndsReporting(waiters[t].exc)]_vars
    /\ [][(pc = "loop" /\ closed /\ ReadHappened /\ last'.by = "loop")
            => pc' = "done" /\ outbound' = outbound]_vars

\* C6 witness: the channel closed under a waiting query of the main thread,
\* the run reported it and the loop has ended.
C6_Witness ==
    /\ closed
    /\ pc = "done"
    /\ obs.exit = "returned"
    /\ "RuntimeError" \in Chunks(Report.stderr)
    /\ \E t \in DOMAIN waiters :
          waiters[t].thread = "main" /\ waiters[t].exc = "RuntimeError"

\* The llm_query records on the outbound channel that carry token t.
Requests(t) ==
    SelectSeq(outbound, LAMBDA r : Get(r, "type", NoType) = "llm_query" /\ r.id = t)

\* C7: a query call that has entered llm_query has emitted exactly one
\* llm_query record with its token; it returns only in a step in which it
\* reads an llm_result record whose id is its token, and it returns that
\* record's result, or the empty string when the record has none.
C7_ReturnsOnMatchOnly ==
    /\ [](\A t \in DOMAIN waiters :
            Len(Requests(t)) = IF waiters[t].st = "new" THEN 0 ELSE 1)
    /\ [][\A t \in DOMAIN waiters :
            (waiters[t].st # "returned" /\ waiters'[t].st = "returned")
            => /\ ReadHappened
               /\ last'.by \in {"query", "waiter"}
               /\ last'.tok = t
               /\ last'.line.form = "dict"
               /\ Get(last'.line.obj, "type", NoType) = "llm_result"
               /\ Get(last'.line.obj, "id", NoId) = t
               /\ waiters'[t].res = IF "result" \in DOMAIN last'.line.obj
                                    THEN last'.line.obj.result ELSE ""]_vars

\* C7 witness: a call has returned an answer after reading, and dropping,
\* an llm_result that carried another token.
C7_Witness ==
    \E t \in DOMAIN waiters :
        /\ waiters[t].st = "returned"
        /\ waiters[t].res = "blue"
        /\ \E i \in 1..Len(delivered) :
              delivered[i].to = t /\ delivered[i].rec.id # t

\* The reset_final line.
ResetLine == Line("dict", [type |-> "reset_final"])

\* The fragment calls FINAL or FINAL_VAR.
SetsFinal(code) ==
    \E i \in 1..Len(Program[code].stmts) :
        Program[code].stmts[i].op \in {"FINAL", "FINAL_VAR"}

\* The message dispatched k places before the last one, or a record of no
\* type when there is none.
Earlier(k) ==
    IF Len(dispatched) > k THEN dispatched[Len(dispatched) - k] ELSE [none |-> TRUE]

\* The last dispatched message is an exec, and among the messages before it
\* a reset_final comes after every other exec.
ExecAfterReset ==
    /\ Get(Earlier(0), "type", NoType) = "exec"
    /\ \E i \in 1..(Len(dispatched) - 1) :
          /\ Get(dispatched[i], "type", NoType) = "reset_final"
          /\ \A j \in (i + 1)..(Len(dispatched) - 1) :
                Get(dispatched[j], "type", NoType) # "exec"

\* C8: at every read of the dispatch loop, a reset_final leaves the
\* sentinel absent, adds the final_reset acknowledgment and changes nothing
\* else; with no sentinel set it changes nothing but the acknowledgment;
\* a second reset_final changes nothing more than the first; and the
\* exec_done of the first exec after a reset_final reports has_final =
\* false unless its fragment sets the sentinel.
C8_ResetFinalIdempotent ==
    /\ pc = "loop" =>
          LET once == Dispatch(Cur, ResetLine)
              twice == Dispatch(once, ResetLine)
              ack == [type |-> "final_reset"]
          IN  /\ once = [Cur EXCEPT !.final = NoFinal,
                                    !.outbound = Append(outbound, ack)]
              /\ final = NoFinal => [once EXCEPT !.outbound = outbound] = Cur
              /\ [twice EXCEPT !.outbound = once.outbound] = once
    /\ (RunReturned /\ ExecAfterReset /\ ~SetsFinal(obs.code))
          => ~Report.has_final

\* C8 witness: a sentinel was set, reset_final was processed, and the next
\* exec has reported has_final = false.
C8_Witness ==
    /\ RunReturned
    /\ Len(dispatched) = 3
    /\ Get(dispatched[1], "code", EmptyCode) = "FINAL(42)"
    /\ dispatched[2] = ResetLine.obj
    /\ Get(dispatched[3], "type", NoType) = "exec"
    /\ ~Report.has_final

\* The places of the set_context messages among the dispatched ones.
ContextSets ==
    {i \in 1..Len(dispatched) : Get(dispatched[i], "type", NoType) = "set_context"}

\* The value of the last set_context message dispatched.
ContextSent ==
    LET i == CHOOSE j \in ContextSets : \A k \in ContextSets : k <= j
    IN  Get(dispatched[i], "value", "")

\* The fragment starts by printing the context.
EchoesContext(code) ==
    /\ Program[code].stmts # <<>>
    /\ Program[code].stmts[1] = Stmt("echo", "context")

\* C9: once a set_context with value V has been processed, the context
\* variable is V until the next set_context, and an exec that follows,
\* however many other messages lie between, whose fragment echoes the
\* context, reports a stdout that contains V.
C9_ContextRoundTrip ==
    ContextSets # {} =>
        /\ scope["context"] = ContextSent
        /\ ( /\ RunReturned
             /\ Get(Earlier(0), "type", NoType) = "exec"
             /\ EchoesContext(obs.code) )
              => ContextSent \in Chunks(Report.stdout)

\* C9 witness: set_context, another exec, then the echo of the value.
C9_Witness ==
    /\ RunReturned
    /\ Len(dispatched) = 3
    /\ Get(dispatched[1], "type", NoType) = "set_context"
    /\ Get(dispatched[2], "type", NoType) = "exec"
    /\ Get(dispatched[3], "type", NoType) = "exec"
    /\ EchoesContext(obs.code)
    /\ "doc" \in Chunks(Report.stdout)

\* The last run ran a fragment that compiles as ordinary code, and the
\* fragment did not raise.
PlainRunReturned ==
    /\ RunReturned
    /\ Program[obs.code].syntax = "ok"
    /\ ~obs.raised

\* C10 as stated: every run of a fragment that uses no suspension and does
\* not raise reports an empty stderr and a stdout equal to the text the
\* fragment printed in that run.
C10_Original ==
    PlainRunReturned => Report.stderr = <<>> /\ Report.stdout = obs.printed

\* C10 as amended: the same for the fragments that, besides, write nothing
\* to sys.stderr and do not rebind sys.stdout.
C10_CapturedOutput ==
    (PlainRunReturned /\ ~obs.wrote_err /\ ~obs.rebound)
        => Report.stderr = <<>> /\ Report.stdout = obs.printed

\* C10 witness: the second of two runs that printed reports its own text
\* only.
C10_Witness ==
    /\ PlainRunReturned /\ ~obs.wrote_err /\ ~obs.rebound
    /\ Len(OfType(outbound, {"exec_done"})) = 2
    /\ OfType(outbound, {"exec_done"})[1].stdout # <<>>
    /\ Report.stdout = <<"p">>


\* The kinds of record the runtime writes.
Kinds == {"ready", "llm_query", "exec_done", "context_set", "final_reset"}

\* C11: every line of the outbound channel is one record of kind ready,
\* llm_query, exec_done, context_set or final_reset, never text of a
\* fragment, and what a fragment printed to the ambient output stream
\* during a run is the stdout field of that run's exec_done, also when the
\* fragment issued a query between two prints.
C11_ProtocolClean ==
    /\ \A i \in 1..Len(outbound) : Get(outbound[i], "type", NoType) \in Kinds
    /\ (RunReturned /\ ~obs.rebound) => Report.stdout = obs.printed

\* C11 witness: a fragment printed, issued a query, printed the answer, and
\* its run has returned.
C11_Witness ==
    /\ RunReturned
    /\ obs.code = "print('p'); print(llm_query('q'))"
    /\ Report.stdout = <<"p", "blue">>
    /\ Len(OfType(outbound, {"llm_query"})) = 1


\* The fragment is legal only as suspendable code, and what it awaits is
\* not a query.
SuspendableOnly(code) ==
    /\ Program[code].syntax = "await_outside"
    /\ Program[code].mentionsAwait
    /\ \A i \in 1..Len(Program[code].stmts) : ~Blocks(Program[code].stmts[i])

\* The statements of a fragment run from state s by exec(compiled,
\* globals()), the ordinary path.
Ordinary(s, code) == Proceed([Enter(s, code) EXCEPT !.frame.path = "plain"])

\* C12: whenever the dispatch loop runs a fragment that is legal only as
\* suspendable code, and the same statements run through the ordinary path
\* from the same state end without error, the run through the fallback
\* path ends with an empty stderr, the same captured stdout and the same
\* sentinel.
C12_FallbackEquivalent ==
    [][\A code \in Codes :
          ( /\ pc = "loop"
            /\ Dispatches("exec")
            /\ Get(last'.line.obj, "code", EmptyCode) = code
            /\ SuspendableOnly(code)
            /\ Ordinary(Cur, code).obs.report[1].stderr = <<>> )
          => /\ obs'.exit = "returned"
             /\ obs'.report[1].stderr = <<>>
             /\ obs'.report[1].stdout = Ordinary(Cur, code).obs.report[1].stdout
             /\ final' = Ordinary(Cur, code).final]_vars


\* A run ends in this step by returning from _execute_code.
RunEnds ==
    /\ obs'.exit = "returned"
    /\ obs.exit = "running" \/ (pc = "loop" /\ Dispatches("exec"))

\* The exec message of the fragment FINAL(42).
ExecFinal42 == [type |-> "exec", code |-> "FINAL(42)"]

\* C13: the exec_done a run emits when it ends reports the sentinel as it
\* is at that moment: has_final is true exactly when the sentinel is set,
\* final_value is the sentinel's string when it is set and absent
\* otherwise; and after one exec of FINAL(42) on a fresh process the
\* outbound channel holds, after ready, the exec_done with has_final =
\* true, final_value = "42" and empty stdout and stderr.
C13_ReportsSentinel ==
    /\ [][RunEnds =>
            /\ outbound' = Append(outbound, obs'.report[1])
            /\ obs'.report[1].type = "exec_done"
            /\ obs'.report[1].has_final = (final' # NoFinal)
            /\ obs'.report[1].final_value = final']_vars
    /\ []((nread = 1 /\ dispatched = <<ExecFinal42>>)
            => outbound = <<[type |-> "ready"],
                            [type |-> "exec_done", stdout |-> <<>>,
                             stderr |-> <<>>, has_final |-> TRUE,
                             final_value |-> <<"42">>]>>)

\* C13 witness: FINAL(42) has run on a fresh process.
C13_Witness ==
    /\ nread = 1
    /\ dispatched = <<ExecFinal42>>
    /\ RunReturned
    /\ Report.has_final /\ Report.final_value = <<"42">>


\* The dispatch loop reads end-of-stream or a shutdown message in this step.
ReadsShutdownOrEOF ==
    /\ pc = "loop"
    /\ ReadHappened
    /\ last'.by = "loop"
    /\ \/ last'.line = EOFLine
       \/ last'.line = Line("dict", [type |-> "shutdown"])

\* C14: the dispatch loop ends when it reads a shutdown message or
\* end-of-stream, emitting nothing; once it has ended, the process reads
\* no further inbound line and emits no further record.
C14_TerminatesSilently ==
    /\ [][ReadsShutdownOrEOF => pc' = "done" /\ outbound' = outbound]_vars
    /\ [][pc = "done" =>
            /\ pc' = "done"
            /\ outbound' = outbound
            /\ nread' = nread
            /\ dispatched' = dispatched]_vars


\* C15: the exec_done of a run whose fragment raised reports has_final as
\* the presence of the sentinel before that run started.
C15_FailedRunKeepsHasFinal ==
    (RunReturned /\ obs.raised)
        => Report.has_final = (obs.final_before # NoFinal)

\* Number of statements of a fragment that print to sys.stdout.
PrintsIn(code) ==
    LET stmts == Program[code].stmts
    IN  Cardinality({i \in 1..Len(stmts) : stmts[i].op \in {"print", "echo", "query"}})

\* C16: a fragment that compiles as ordinary code is run by one exec call
\* at most within its exec message, whatever it raises, so that the run
\* reports no more text than the fragment prints in one pass.
C16_NoSecondAttempt ==
    Program[obs.code].syntax = "ok"
        => /\ obs.attempts <= 1
           /\ RunReturned => Len(Report.stdout) <= PrintsIn(obs.code)


\* _execute_code is left in this step, by return or by an exception that
\* unwinds it.
RunLeaves ==
    /\ obs'.exit \in {"returned", "unwound"}
    /\ obs.exit = "running" \/ (pc = "loop" /\ Dispatches("exec"))

\* C17: when a run ends, on any path, sys.stdout and sys.stderr are what
\* they were when the run began; outside a run they are the original
\* streams, never a capture buffer or a stream of a fragment.
C17_StreamsRestored ==
    /\ [][RunLeaves =>
            /\ sys_stdout' = IF pc = "loop" THEN sys_stdout ELSE frame.old_stdout
            /\ sys_stderr' = IF pc = "loop" THEN sys_stderr ELSE frame.old_stderr]_vars
    /\ [](pc # "exec" => sys_stdout = "orig" /\ sys_stderr = "orig")

\* C17 witness: a fragment that rebound sys.stdout has returned, and so
\* has, before it, a fragment that raised.
C17_Witness ==
    /\ RunReturned
    /\ obs.rebound
    /\ sys_stdout = "orig"
    /\ \E i \in 1..Len(outbound) :
          /\ Get(outbound[i], "type", NoType) = "exec_done"
          /\ outbound[i].stderr # <<>>


\* The fragment binds x at top level with its first statement.
BindsX(code) ==
    /\ Program[code].stmts # <<>>
    /\ Program[code].stmts[1] = Stmt("assign", "x")

\* An exec whose handling has ended ran a fragment that binds x.
BoundEarlier ==
    \E i \in 1..Len(Handled) :
        /\ Get(Handled[i], "type", NoType) = "exec"
        /\ BindsX(Get(Handled[i], "code", EmptyCode))

\* C18: once the fragment of an exec has bound a name at top level, through
\* the ordinary path or through the fallback path, the name has that value
\* in the scope of every later exec, whose fragment can echo it; and
\* set_context changes nothing but the context variable, reset_final
\* nothing but the sentinel.
C18_ScopeShared ==
    /\ [](BoundEarlier => scope["x"] = AssignedValue)
    /\ []((BoundEarlier /\ RunReturned /\ obs.code = "print(context); print(x)"
            /\ Get(Earlier(0), "type", NoType) = "exec")
            => AssignedValue \in Chunks(Report.stdout))
    /\ [][(pc = "loop" /\ Dispatches("set_context"))
            => /\ final' = final
               /\ \A n \in Names \ {"context"} : scope'[n] = scope[n]]_vars
    /\ [][(pc = "loop" /\ Dispatches("reset_final")) => scope' = scope]_vars


\* A query wait reads, in this step, a record that is not the llm_result
\* carrying the reader's token.
WaitReadsOther ==
    /\ ReadHappened
    /\ last'.by \in {"query", "waiter"}
    /\ last'.line.form = "dict"
    /\ ~ ( /\ Get(last'.line.obj, "type", NoType) = "llm_result"
           /\ Get(last'.line.obj, "id", NoId) = last'.tok )

\* C19: a record that a waiting query reads and that is not its matching
\* llm_result, a control message included, is consumed and dropped: no
\* state changes, nothing is emitted, the run in progress goes on, and the
\* record is not handed to the dispatch loop.
C19_DroppedWhileWaiting ==
    [][WaitReadsOther =>
          /\ EngineUnchanged
          /\ nread' = nread + 1
          /\ dispatched' = dispatched]_vars

\* C19 witness: the query of the main thread has read a shutdown message
\* and is still waiting inside its run.
C19_Witness ==
    /\ pc = "exec"
    /\ request_id # 0
    /\ waiters[request_id].st = "waiting"
    /\ last.by = "query"
    /\ last.line = Line("dict", [type |-> "shutdown"])


\* The llm_query calls that have not ended: handed to a thread or reading.
Unfinished == {t \in DOMAIN waiters : waiters[t].st \in {"new", "waiting"}}

\* C20: once the exec_done of a run is out, none of the run's query calls
\* is unfinished, also when one of two concurrent calls failed while the
\* other was waiting; so between runs and after the loop has ended the
\* dispatch loop is the only reader of the inbound channel.
C20_WaitersConfined ==
    /\ [](pc \in {"loop", "done"} => Unfinished = {})
    /\ [][(pc \in {"loop", "done"} /\ ReadHappened) => last'.by = "loop"]_vars

====
